---- MODULE Spec2Model ----
(***************************************************************************)
(* Teslemetry data-refresh coordination: the three polling coordinators    *)
(* of coordinator.py, the cache access facade of entity.py and the wake    *)
(* helper TeslemetryVehicleEntity.wake_up_if_asleep.                        *)
(*                                                                         *)
(* Python objects are tagged tuples <<kind, payload>> so that               *)
(* isinstance(), truthiness and "is None" are computed, not assumed.        *)
(* Times are whole seconds.  An awaited call of the Tesla client is split   *)
(* into the step that issues it and the step in which it returns or raises. *)
(***************************************************************************)
EXTENDS Integers, Sequences, FiniteSets, TLC

VARIABLES
    kind,            \* class of the coordinator object under study
    pre2021,         \* TeslemetryVehicleDataCoordinator.pre2021
    data,            \* DataUpdateCoordinator.data, the cache
    update_interval, \* DataUpdateCoordinator.update_interval, seconds
    updated_once,    \* TeslemetryVehicleDataCoordinator.updated_once
    last_active,     \* TeslemetryVehicleDataCoordinator.last_active
    now,             \* datetime.now(), seconds
    pc,              \* "idle", or "fetching" while _async_update_data awaits the client
    calls,           \* client fetch calls issued by the current/last _async_update_data
    last_fetch,      \* what the client did in the last finished fetch
    last_result,     \* how the last _async_update_data ended
    fresh,           \* entities whose HA state was written since the last cache mutation
    wakelock,        \* holder of the vehicle's wake lock, 0 when free
    wpc,             \* per caller: position inside wake_up_if_asleep
    wait,            \* per caller: the local variable wait
    attempts,        \* per caller: offsets (seconds slept so far) of the wake commands issued
    slept,           \* per caller: seconds of asyncio.sleep begun by the invocation
    result,          \* the last call of get/has/exactly: its arguments and what it returned
    superseded,      \* history: the last refresh replaced a value an entity had set
    tree,            \* the argument of a call of flatten
    flat,            \* what flatten(tree) returned
    reflat,          \* what flatten(flat) returned
    native_value,    \* per vehicle sensor: _attr_native_value
    available,       \* per vehicle sensor: _attr_available
    last_value,      \* TeslemetryVehicleTimeSensorEntity._last_value
    fetched          \* history: a fetch has ended with success on a response

cvars == <<kind, pre2021, data, update_interval, updated_once, last_active,
           pc, calls, last_fetch, last_result>>
wvars == <<wakelock, wpc, wait, attempts, slept>>
fvars == <<tree, flat, reflat>>
svars == <<native_value, available, last_value, fetched>>
vars == <<kind, pre2021, data, update_interval, updated_once, last_active, now,
          pc, calls, last_fetch, last_result, fresh,
          wakelock, wpc, wait, attempts, slept,
          result, superseded, tree, flat, reflat,
          native_value, available, last_value, fetched>>

----------------------------------------------------------------------------
(* Bounds of the model *)

\* number of concurrent callers of wake_up_if_asleep on one vehicle
NumCallers == 2
\* number of entities (observers) attached to the coordinator
NumEntities == 2
\* the clock advances in steps of TimeStep seconds and stops at MaxNow
TimeStep == 300
MaxNow == 2700

Callers == 1..NumCallers
Entities == 1..NumEntities

----------------------------------------------------------------------------
(* Python values *)

None == <<"none">>
Str(s) == <<"str", s>>
Bool(b) == <<"bool", b>>
Num(n) == <<"num", n>>
Dict(f) == <<"dict", f>>
List(s) == <<"list", s>>
EmptyDict == Dict(<<>>)

\* type(x) and the payload of x
Kind(x) == x[1]
Val(x) == x[2]
IsDict(x) == Kind(x) = "dict"
IsNone(x) == Kind(x) = "none"

\* bool(x)
Truthy(x) ==
    CASE Kind(x) = "none" -> FALSE
      [] Kind(x) = "bool" -> Val(x)
      [] Kind(x) = "str"  -> Val(x) # ""
      [] Kind(x) = "num"  -> Val(x) # 0
      [] Kind(x) = "dict" -> DOMAIN Val(x) # {}
      [] Kind(x) = "list" -> Len(Val(x)) # 0

\* d.get(key, default) on a dict d
DictGet(d, key, default) == IF key \in DOMAIN Val(d) THEN Val(d)[key] ELSE default

\* d[key] = value on a dict d
SetItem(d, key, value) ==
    Dict([x \in (DOMAIN Val(d)) \cup {key} |-> IF x = key THEN value ELSE Val(d)[x]])

\* markers of the model: no reader of the facade was called, flatten was not called
NoCall == <<"nocall">>
NotCalled == <<"notcalled">>

\* TeslemetryState
ONLINE == Str("online")
ASLEEP == Str("asleep")
OFFLINE == Str("offline")

----------------------------------------------------------------------------
(* coordinator.py: constants *)

VEHICLE_INTERVAL == 30
VEHICLE_WAIT == 900
ENERGY_LIVE_INTERVAL == 30
ENERGY_INFO_INTERVAL == 30
\* timedelta(minutes=20), timedelta(minutes=15) of the sleep policy
SLEEP_END == 1200
SLEEP_START == 900

----------------------------------------------------------------------------
(* coordinator.py: flatten *)

\* (a variant that joins the parent also at the top level, where it is empty)
RECURSIVE FlattenItemsAlwaysJoining(_, _)
FlattenItemsAlwaysJoining(d, parent) ==
    UNION { LET key == parent \o "_" \o k0
            IN  IF IsDict(d[k0])
                THEN FlattenItemsAlwaysJoining(Val(d[k0]), key)
                ELSE {<<key, d[k0]>>}
          : k0 \in DOMAIN d }

RECURSIVE FlattenItems(_, _)
\* the (key, value) pairs flatten(data, parent) puts into result; parent "" is
\* the falsy parent (None, or an empty key one level up)
FlattenItems(d, parent) ==
    UNION { LET key == IF parent # "" THEN parent \o "_" \o k0 ELSE k0
            IN  IF IsDict(d[k0])
                THEN FlattenItems(Val(d[k0]), key)
                ELSE {<<key, d[k0]>>}
          : k0 \in DOMAIN d }

\* flatten(data) for a dict data.  Where two leaves get the same key Python
\* keeps the one written last (insertion order, which is not modelled).
flatten(x) ==
    LET items == FlattenItems(Val(x), "")
        keys == {p[1] : p \in items}
    IN  Dict([fk \in keys |-> (CHOOSE p \in items : p[1] = fk)[2]])

\* every mapping flatten(data) can return: where several leaves get the same
\* key, the one that data.items() yields last stays, whichever it is
Flattenings(x) ==
    LET items == FlattenItems(Val(x), "")
        keys == {p[1] : p \in items}
    IN  {Dict(f) : f \in {g \in [keys -> {p[2] : p \in items}] :
                              \A fk \in keys : <<fk, g[fk]>> \in items}}

\* the argument object after flatten(data): the function reads data.items()
\* and assigns only to its local result
flattenArg(x) == x

----------------------------------------------------------------------------
(* The Tesla client (tesla_fleet_api), as the coordinators see it *)

\* an awaited client call either raises an exception or returns a value
Raise(e) == <<"raise", e>>
Return(x) == <<"return", x>>

\* tesla_fleet_api.exceptions: the subclasses of TeslaFleetError the code
\* names, and "TeslaFleetError" for any other API error
TeslaFleetErrors ==
    {"VehicleOffline", "InvalidToken", "SubscriptionRequired", "Forbidden",
     "TeslaFleetError"}

\* the failures spec section 4.2 lists under AuthInvalid
AuthErrors == {"InvalidToken", "SubscriptionRequired", "Forbidden"}

\* x[key] of a Python value x: <<TRUE, value>> or <<FALSE, exception>>
Subscript(x, key) ==
    IF ~IsDict(x) THEN <<FALSE, "TypeError">>
    ELSE IF key \notin DOMAIN Val(x) THEN <<FALSE, "KeyError">>
    ELSE <<TRUE, Val(x)[key]>>

----------------------------------------------------------------------------
(* coordinator.py: the three _async_update_data                            *)
(*                                                                         *)
(* self is the record of the coordinator's attributes; the result is       *)
(* [self |-> attributes after the call, raised |-> "" or the exception      *)
(* that leaves it, ret |-> the returned value].                             *)

Self == [data |-> data, update_interval |-> update_interval,
         last_active |-> last_active, updated_once |-> updated_once,
         pre2021 |-> pre2021]

Returns(self, x) == [self |-> self, raised |-> "", ret |-> x]
\* (a variant that drops the cache when the update fails)
RaisesDroppingCache(self, e) ==
    [self |-> [self EXCEPT !.data = EmptyDict], raised |-> e, ret |-> None]
Raises(self, e) == [self |-> self, raised |-> e, ret |-> None]

\* (a variant without the VehicleOffline clause)
VehicleExceptWithoutOffline(e) ==
    IF e \in {"InvalidToken", "Forbidden", "SubscriptionRequired"}
    THEN "ConfigEntryAuthFailed"
    ELSE IF e \in TeslaFleetErrors THEN "UpdateFailed"
    ELSE IF e = "TypeError" THEN "UpdateFailed"
    ELSE e

\* vehicle: which except clause of lines 79-88 takes exception e
VehicleExcept(e) ==
    IF e = "VehicleOffline" THEN "offline"
    ELSE IF e \in {"InvalidToken", "Forbidden", "SubscriptionRequired"}
         THEN "ConfigEntryAuthFailed"
    ELSE IF e \in TeslaFleetErrors THEN "UpdateFailed"
    ELSE IF e = "TypeError" THEN "UpdateFailed"
    ELSE e

\* energy site live: which except clause of lines 131-138 takes exception e
EnergyLiveExcept(e) ==
    IF e = "InvalidToken" THEN "ConfigEntryAuthFailed"
    ELSE IF e = "SubscriptionRequired" THEN "ConfigEntryAuthFailed"
    ELSE IF e \in TeslaFleetErrors THEN "UpdateFailed"
    ELSE IF e = "TypeError" THEN "UpdateFailed"
    ELSE e

\* energy site info: which except clause of lines 167-174 takes exception e
EnergyInfoExcept(e) ==
    IF e = "InvalidToken" THEN "ConfigEntryAuthFailed"
    ELSE IF e = "SubscriptionRequired" THEN "ConfigEntryAuthFailed"
    ELSE IF e \in TeslaFleetErrors THEN "UpdateFailed"
    ELSE IF e = "TypeError" THEN "UpdateFailed"
    ELSE e

\* (await self.api.<fetch>())["response"]: <<TRUE, data>> or <<FALSE, exception>>
Response(out) ==
    IF Kind(out) = "raise" THEN <<FALSE, Val(out)>>
    ELSE Subscript(Val(out), "response")

\* the condition of line 92, with Python's left-to-right, short-circuit
\* evaluation: "active", "idle", or the exception the evaluation raises
Activity(d) ==
    LET cs == Subscript(d, "charge_state")
        vs == Subscript(d, "vehicle_state")
    IN  IF ~cs[1] THEN cs[2]
        ELSE IF ~IsDict(cs[2]) THEN "AttributeError"
        ELSE IF DictGet(cs[2], "charging_state", None) = Str("Charging") THEN "active"
        ELSE IF ~vs[1] THEN vs[2]
        ELSE IF ~IsDict(vs[2]) THEN "AttributeError"
        ELSE IF Truthy(DictGet(vs[2], "is_user_present", None)) THEN "active"
        ELSE IF Truthy(DictGet(vs[2], "sentry_mode", None)) THEN "active"
        ELSE "idle"

\* (variants of the sleep policy: the branch named is the one that differs)
\* (idle within 15 minutes goes back to the active interval)
SleepPolicyElseActive(self, activity, t) ==
    IF activity = "active"
    THEN [self EXCEPT !.last_active = t, !.update_interval = VEHICLE_INTERVAL]
    ELSE LET elapsed == t - self.last_active
         IN  IF elapsed > SLEEP_END
             THEN [self EXCEPT !.last_active = t, !.update_interval = VEHICLE_WAIT]
             ELSE IF elapsed > SLEEP_START
             THEN [self EXCEPT !.update_interval = VEHICLE_WAIT]
             ELSE [self EXCEPT !.update_interval = VEHICLE_INTERVAL]

\* (the end of the sleep period moves the timer on by the period)
SleepPolicyEndAddsWindow(self, activity, t) ==
    IF activity = "active"
    THEN [self EXCEPT !.last_active = t, !.update_interval = VEHICLE_INTERVAL]
    ELSE LET elapsed == t - self.last_active
         IN  IF elapsed > SLEEP_END
             THEN [self EXCEPT !.last_active = self.last_active + SLEEP_END,
                               !.update_interval = VEHICLE_WAIT]
             ELSE IF elapsed > SLEEP_START
             THEN [self EXCEPT !.update_interval = VEHICLE_WAIT]
             ELSE self

\* (every fetch within 15 minutes resets the timer)
SleepPolicyFetchResets(self, activity, t) ==
    IF activity = "active"
    THEN [self EXCEPT !.last_active = t, !.update_interval = VEHICLE_INTERVAL]
    ELSE LET elapsed == t - self.last_active
         IN  IF elapsed > SLEEP_END
             THEN [self EXCEPT !.last_active = t, !.update_interval = VEHICLE_WAIT]
             ELSE IF elapsed > SLEEP_START
             THEN [self EXCEPT !.update_interval = VEHICLE_WAIT]
             ELSE [self EXCEPT !.last_active = t]

\* (entering the sleep period resets the timer too)
SleepPolicyStartResets(self, activity, t) ==
    IF activity = "active"
    THEN [self EXCEPT !.last_active = t, !.update_interval = VEHICLE_INTERVAL]
    ELSE LET elapsed == t - self.last_active
         IN  IF elapsed > SLEEP_START
             THEN [self EXCEPT !.last_active = t, !.update_interval = VEHICLE_WAIT]
             ELSE self

\* (ending the sleep period goes back to the active interval)
SleepPolicyEndActive(self, activity, t) ==
    IF activity = "active"
    THEN [self EXCEPT !.last_active = t, !.update_interval = VEHICLE_INTERVAL]
    ELSE LET elapsed == t - self.last_active
         IN  IF elapsed > SLEEP_END
             THEN [self EXCEPT !.last_active = t, !.update_interval = VEHICLE_INTERVAL]
             ELSE IF elapsed > SLEEP_START
             THEN [self EXCEPT !.update_interval = VEHICLE_WAIT]
             ELSE self

\* (activity resets the timer and leaves the interval)
SleepPolicyActiveKeepsInterval(self, activity, t) ==
    IF activity = "active"
    THEN [self EXCEPT !.last_active = t]
    ELSE LET elapsed == t - self.last_active
         IN  IF elapsed > SLEEP_END
             THEN [self EXCEPT !.last_active = t, !.update_interval = VEHICLE_WAIT]
             ELSE IF elapsed > SLEEP_START
             THEN [self EXCEPT !.update_interval = VEHICLE_WAIT]
             ELSE self

\* (ending the sleep period waits the 20 minutes of its threshold)
SleepPolicyWaitsThreshold(self, activity, t) ==
    IF activity = "active"
    THEN [self EXCEPT !.last_active = t, !.update_interval = VEHICLE_INTERVAL]
    ELSE LET elapsed == t - self.last_active
         IN  IF elapsed > SLEEP_END
             THEN [self EXCEPT !.last_active = t, !.update_interval = SLEEP_END]
             ELSE IF elapsed > SLEEP_START
             THEN [self EXCEPT !.update_interval = VEHICLE_WAIT]
             ELSE self

\* lines 93-107: the sleep policy of a pre-2021 vehicle, at time t
SleepPolicy(self, activity, t) ==
    IF activity = "active"
    THEN [self EXCEPT !.last_active = t, !.update_interval = VEHICLE_INTERVAL]
    ELSE LET elapsed == t - self.last_active
         IN  IF elapsed > SLEEP_END
             THEN [self EXCEPT !.last_active = t, !.update_interval = VEHICLE_WAIT]
             ELSE IF elapsed > SLEEP_START
             THEN [self EXCEPT !.update_interval = VEHICLE_WAIT]
             ELSE self

\* (a variant that starts the cache afresh)
VehicleOfflineHandlerDroppingCache(self) ==
    LET s1 == [self EXCEPT !.data = Dict([state |-> OFFLINE]),
                           !.update_interval = VEHICLE_INTERVAL]
    IN  Returns(s1, s1.data)

\* (a variant that leaves the interval as it is)
VehicleOfflineHandlerKeepingInterval(self) ==
    IF ~IsDict(self.data) THEN Raises(self, "TypeError")
    ELSE LET s1 == [self EXCEPT !.data = SetItem(self.data, "state", OFFLINE)]
         IN  Returns(s1, s1.data)

\* lines 79-82: the VehicleOffline handler
VehicleOfflineHandler(self) ==
    IF ~IsDict(self.data) THEN Raises(self, "TypeError")
    ELSE LET s1 == [self EXCEPT !.data = SetItem(self.data, "state", OFFLINE),
                                !.update_interval = VEHICLE_INTERVAL]
         IN  Returns(s1, s1.data)

\* (a variant that updates the cache in place and returns it)
VehicleFinishMerging(self, d) ==
    LET s1 == [self EXCEPT !.updated_once = TRUE]
        new == flatten(d)
        merged == Dict([x \in DOMAIN Val(self.data) \cup DOMAIN Val(new) |->
                           IF x \in DOMAIN Val(new) THEN Val(new)[x]
                           ELSE Val(self.data)[x]])
    IN  IF IsDict(d) THEN Returns(s1, merged) ELSE Raises(s1, "AttributeError")

\* lines 109-110
VehicleFinish(self, d) ==
    LET s1 == [self EXCEPT !.updated_once = TRUE]
    IN  IF IsDict(d) THEN Returns(s1, flatten(d)) ELSE Raises(s1, "AttributeError")

\* (a variant that applies the sleep policy to every vehicle)
VehicleUpdateDataPolicyForAll(self, out, t) ==
    LET r == Response(out)
    IN  IF ~r[1]
        THEN LET h == VehicleExcept(r[2])
             IN  IF h = "offline" THEN VehicleOfflineHandler(self)
                 ELSE Raises(self, h)
        ELSE LET a == Activity(r[2])
             IN  IF a \in {"active", "idle"}
                 THEN VehicleFinish(SleepPolicy(self, a, t), r[2])
                 ELSE Raises(self, a)

\* TeslemetryVehicleDataCoordinator._async_update_data, the client's outcome
\* being out and datetime.now() being t
VehicleUpdateData(self, out, t) ==
    LET r == Response(out)
    IN  IF ~r[1]
        THEN LET h == VehicleExcept(r[2])
             IN  IF h = "offline" THEN VehicleOfflineHandler(self)
                 ELSE Raises(self, h)
        ELSE IF self.pre2021
        THEN LET a == Activity(r[2])
             IN  IF a \in {"active", "idle"}
                 THEN VehicleFinish(SleepPolicy(self, a, t), r[2])
                 ELSE Raises(self, a)
        ELSE VehicleFinish(self, r[2])

\* (a variant without the "or []" of line 142, which keeps a missing or null list)
WallConnectorsKeepingFalsy(d) ==
    LET got == DictGet(d, "wall_connectors", None)
    IN  IF Kind(got) # "list" THEN <<TRUE, got>>
        ELSE LET l == Val(got)
             IN  <<TRUE, Dict([din \in {Val(Val(l[i])["din"]) : i \in DOMAIN l} |->
                                 l[CHOOSE i \in DOMAIN l : Val(l[i])["din"] = Str(din)]])>>

\* lines 141-143: the wall connectors of the response, re-keyed by din:
\* <<TRUE, dict>> or <<FALSE, exception>>
WallConnectors(d) ==
    LET got == DictGet(d, "wall_connectors", None)
        wcs == IF Truthy(got) THEN got ELSE List(<<>>)
    IN  IF Kind(wcs) # "list" THEN <<FALSE, "TypeError">>
        ELSE LET l == Val(wcs)
                 bad == {i \in DOMAIN l : ~Subscript(l[i], "din")[1]}
                 dins == {Subscript(l[i], "din")[2] : i \in DOMAIN l \ bad}
                 \* a later entry of the same din replaces an earlier one
                 last(din) == CHOOSE i \in DOMAIN l :
                                 /\ Subscript(l[i], "din")[2] = din
                                 /\ \A j \in DOMAIN l :
                                       Subscript(l[j], "din")[2] = din => j <= i
             IN  IF bad # {}
                 THEN <<FALSE, Subscript(l[CHOOSE i \in bad : \A j \in bad : i <= j], "din")[2]>>
                 ELSE <<TRUE, Dict([din \in {Val(x) : x \in dins} |-> l[last(Str(din))]])>>

\* TeslemetryEnergySiteLiveCoordinator._async_update_data
EnergyLiveUpdateData(self, out, t) ==
    LET r == Response(out)
    IN  IF ~r[1] THEN Raises(self, EnergyLiveExcept(r[2]))
        ELSE IF ~IsDict(r[2]) THEN Raises(self, "AttributeError")
        ELSE LET wc == WallConnectors(r[2])
             IN  IF ~wc[1] THEN Raises(self, wc[2])
                 ELSE Returns(self, SetItem(r[2], "wall_connectors", wc[2]))

\* TeslemetryEnergySiteInfoCoordinator._async_update_data
EnergyInfoUpdateData(self, out, t) ==
    LET r == Response(out)
    IN  IF ~r[1] THEN Raises(self, EnergyInfoExcept(r[2]))
        ELSE IF ~IsDict(r[2]) THEN Raises(self, "AttributeError")
        ELSE Returns(self, flatten(r[2]))

UpdateData(self, out, t) ==
    CASE kind = "vehicle" -> VehicleUpdateData(self, out, t)
      [] kind = "energy_live" -> EnergyLiveUpdateData(self, out, t)
      [] kind = "energy_info" -> EnergyInfoUpdateData(self, out, t)

----------------------------------------------------------------------------
(* The inputs of the model *)

Kinds == {"vehicle", "energy_live", "energy_info"}

\* ord(vin[9]) of the modelled VINs, and ord("L")
OrdL == 76
VinYearOrd(vin) ==
    CASE vin = "5YJ3E1EA7LF000001" -> 76
      [] vin = "5YJ3E1EA7MF000001" -> 77

\* the product passed to the constructor
Products ==
    [vehicle |-> {Dict([vin |-> Str(v), state |-> st])
                     : v \in {"5YJ3E1EA7LF000001", "5YJ3E1EA7MF000001"},
                       st \in {ONLINE, ASLEEP}},
     energy_live |-> {None},
     energy_info |-> {Dict([energy_site_id |-> Num(1),
                            components |-> Dict([battery |-> Bool(TRUE)])])}]

\* a vehicle_data response
VehicleData(charging, user, sentry) ==
    Dict([state |-> ONLINE,
          charge_state |-> Dict([charging_state |-> Str(charging),
                                 charge_port_door_open |-> Bool(FALSE)]),
          vehicle_state |-> Dict([is_user_present |-> Bool(user),
                                  sentry_mode |-> Bool(sentry)])])

\* what "response" holds in the values the fetches return
Responses ==
    [vehicle |-> {VehicleData("Stopped", FALSE, FALSE),
                  VehicleData("Charging", FALSE, FALSE),
                  VehicleData("Stopped", TRUE, FALSE),
                  VehicleData("Stopped", FALSE, TRUE),
                  Dict([state |-> ONLINE,
                        vehicle_state |-> Dict([sentry_mode |-> Bool(FALSE)])]),
                  Dict([state |-> ONLINE,
                        charge_state |-> Dict([charging_state |-> Str("Stopped")])]),
                  None},
     energy_live |-> {Dict([solar_power |-> Num(100),
                            grid |-> Dict([status |-> Str("Active")]),
                            wall_connectors |->
                                List(<<Dict([din |-> Str("X1"), power |-> Num(500)])>>)]),
                      Dict([solar_power |-> Num(100), wall_connectors |-> List(<<>>)]),
                      Dict([solar_power |-> Num(100), wall_connectors |-> None]),
                      Dict([solar_power |-> Num(100)]),
                      None},
     energy_info |-> {Dict([site_name |-> Str("Home"),
                            components |-> Dict([battery |-> Bool(TRUE),
                                                 solar |-> Bool(FALSE)])]),
                      None}]

\* what an awaited fetch of the coordinator can do
FetchOutcomes ==
    {Raise(e) : e \in TeslaFleetErrors}
    \cup {Return(None), Return(Dict([error |-> Str("x")]))}
    \cup {Return(Dict([response |-> d])) : d \in Responses[kind]}

\* the argument lists of the set() calls: cover.py lines 70-75 and 106 for a
\* vehicle, one pair for an energy site
WriteArgs ==
    IF kind = "vehicle"
    THEN {<<<<"charge_state_charge_port_door_open", Bool(TRUE)>>>>,
          <<<<"vehicle_state_fd_window", Str("open")>>,
            <<"vehicle_state_fp_window", Str("open")>>,
            <<"vehicle_state_rd_window", Str("open")>>,
            <<"vehicle_state_rp_window", Str("open")>>>>}
    ELSE {<<<<"site_name", Str("Cabin")>>>>}

----------------------------------------------------------------------------
(* The coordinator *)

\* the state after __init__; the energy site live coordinator sets no data,
\* which leaves the DataUpdateCoordinator's initial None
CoordinatorInit ==
    /\ kind \in Kinds
    /\ \E product \in Products[kind] :
          /\ data = CASE kind = "vehicle" -> flatten(product)
                      [] kind = "energy_live" -> None
                      [] kind = "energy_info" -> product
          /\ pre2021 = IF kind = "vehicle"
                       THEN VinYearOrd(Val(Val(product)["vin"])) <= OrdL
                       ELSE FALSE
    /\ update_interval = CASE kind = "vehicle" -> VEHICLE_INTERVAL
                           [] kind = "energy_live" -> ENERGY_LIVE_INTERVAL
                           [] kind = "energy_info" -> ENERGY_INFO_INTERVAL
    /\ updated_once = FALSE
    /\ now = 0
    /\ last_active = now
    /\ pc = "idle"
    /\ calls = 0
    /\ last_fetch = ""
    /\ last_result = ""
    /\ fresh = {}

\* how the DataUpdateCoordinator sees _async_update_data end
ResultOf(raised) ==
    CASE raised = "" -> "success"
      [] raised = "ConfigEntryAuthFailed" -> "auth_failed"
      [] raised = "UpdateFailed" -> "update_failed"
      [] OTHER -> "exception"

\* A refresh starts: _async_update_data runs up to its await, the fetch is
\* issued.  The DataUpdateCoordinator runs one refresh at a time.
StartRefresh ==
    /\ pc = "idle"
    /\ pc' = "fetching"
    /\ calls' = 1
    /\ UNCHANGED <<kind, pre2021, data, update_interval, updated_once,
                   last_active, now, last_fetch, last_result, fresh>>

\* The awaited fetch ends with outcome out and _async_update_data runs to its
\* end; the DataUpdateCoordinator stores a returned value as self.data and
\* tells its listeners, which write their state.
FinishRefresh(out) ==
    /\ pc = "fetching"
    /\ LET r == UpdateData(Self, out, now)
       IN  /\ data' = IF r.raised = "" THEN r.ret ELSE r.self.data
           /\ update_interval' = r.self.update_interval
           /\ last_active' = r.self.last_active
           /\ updated_once' = r.self.updated_once
           /\ last_result' = ResultOf(r.raised)
           /\ fresh' = IF r.raised = "" THEN Entities ELSE fresh
    /\ last_fetch' = IF Kind(out) = "raise" THEN Val(out) ELSE "returned"
    /\ pc' = "idle"
    /\ UNCHANGED <<kind, pre2021, now, calls>>

\* (a variant that assigns the first pair only)
SetAllFirstOnly(d, args) ==
    IF args = <<>> THEN <<TRUE, d>>
    ELSE IF ~IsDict(d) THEN <<FALSE, "TypeError">>
    ELSE <<TRUE, SetItem(d, Head(args)[1], Head(args)[2])>>

\* the assignments of TeslemetryEntity.set(*args) to the cache d:
\* <<TRUE, cache>> or <<FALSE, exception>>
RECURSIVE SetAll(_, _)
SetAll(d, args) ==
    IF args = <<>> THEN <<TRUE, d>>
    ELSE IF ~IsDict(d) THEN <<FALSE, "TypeError">>
    ELSE SetAll(SetItem(d, Head(args)[1], Head(args)[2]), Tail(args))

\* TeslemetryEntity.set(*args) of entity e
Set(e, args) ==
    /\ LET w == SetAll(data, args)
       IN  IF w[1]
           THEN data' = w[2] /\ fresh' = {e}
           ELSE UNCHANGED <<data, fresh>>
    /\ UNCHANGED <<kind, pre2021, update_interval, updated_once, last_active,
                   now, pc, calls, last_fetch, last_result>>

----------------------------------------------------------------------------
(* entity.py: the readers of the cache access facade                       *)
(*                                                                         *)
(* d is coordinator.data and selfkey the entity's self.key; a key argument *)
(* is a Python value, None when the caller leaves it out.  The result is   *)
(* [data |-> the cache after the call, raised |-> "" or the exception,      *)
(* ret |-> the returned value].                                             *)

\* Python's a == b on the modelled values; bool is a subclass of int
PyNum(x) == IF Kind(x) = "bool" THEN (IF Val(x) THEN 1 ELSE 0) ELSE Val(x)
PyEq(a, b) ==
    IF Kind(a) \in {"bool", "num"} /\ Kind(b) \in {"bool", "num"}
    THEN PyNum(a) = PyNum(b)
    ELSE Kind(a) = Kind(b) /\ a = b

\* key or self.key
KeyOr(key, selfkey) == IF Truthy(key) THEN Val(key) ELSE selfkey

\* (a variant that stores the default, as dict.setdefault does)
getSettingDefault(d, selfkey, key, default) ==
    IF ~IsDict(d) THEN [data |-> d, raised |-> "AttributeError", ret |-> None]
    ELSE LET k == KeyOr(key, selfkey)
         IN  [data |-> IF k \in DOMAIN Val(d) THEN d ELSE SetItem(d, k, default),
              raised |-> "",
              ret |-> DictGet(d, k, default)]

\* TeslemetryEntity.get(key, default)
get(d, selfkey, key, default) ==
    IF ~IsDict(d) THEN [data |-> d, raised |-> "AttributeError", ret |-> None]
    ELSE [data |-> d, raised |-> "", ret |-> DictGet(d, KeyOr(key, selfkey), default)]

\* (a variant that answers False for a cached null)
exactlyComparingNull(d, selfkey, value) ==
    IF IsNone(value)
    THEN LET g == get(d, selfkey, Str(selfkey), Bool(FALSE))
         IN  [g EXCEPT !.ret = IF g.raised = "" THEN Bool(IsNone(g.ret)) ELSE None]
    ELSE LET g == get(d, selfkey, None, None)
         IN  IF g.raised # "" THEN g
             ELSE IF selfkey \notin DOMAIN Val(d) THEN g
             ELSE [g EXCEPT !.ret = Bool(PyEq(g.ret, value))]

\* TeslemetryEntity.exactly(value)
exactly(d, selfkey, value) ==
    IF IsNone(value)
    THEN LET g == get(d, selfkey, Str(selfkey), Bool(FALSE))
         IN  [g EXCEPT !.ret = IF g.raised = "" THEN Bool(IsNone(g.ret)) ELSE None]
    ELSE LET g == get(d, selfkey, None, None)
         IN  IF g.raised # "" THEN g
             ELSE IF IsNone(g.ret) THEN g
             ELSE [g EXCEPT !.ret = Bool(PyEq(g.ret, value))]

\* TeslemetryEntity.has(key)
has(d, selfkey, key) ==
    IF ~IsDict(d) THEN [data |-> d, raised |-> "TypeError", ret |-> None]
    ELSE [data |-> d, raised |-> "", ret |-> Bool(KeyOr(key, selfkey) \in DOMAIN Val(d))]

\* self.key of the entities
EntityKey(e) ==
    CASE kind = "vehicle" ->
            IF e = 1 THEN "charge_state_charge_port_door_open"
            ELSE IF e = 2 THEN "vehicle_state_fd_window"
            ELSE "state"
      [] kind = "energy_live" -> IF e = 1 THEN "solar_power" ELSE "grid_status"
      [] kind = "energy_info" -> IF e = 1 THEN "site_name" ELSE "components_battery"

\* the arguments the readers are called with
ReadKeys == {None, Str("state")}
ReadDefaults == {None, Num(0)}
ExactlyValues == {None, Bool(TRUE), Str("open")}

\* entity e calls self.get(key, default)
Get(e, key, default) ==
    /\ LET r == get(data, EntityKey(e), key, default)
       IN  /\ data' = r.data
           /\ result' = <<"get", e, key, default, r.raised, r.ret>>
    /\ UNCHANGED <<kind, pre2021, update_interval, updated_once, last_active,
                   now, pc, calls, last_fetch, last_result, fresh>>

\* entity e calls self.has(key)
Has(e, key) ==
    /\ LET r == has(data, EntityKey(e), key)
       IN  /\ data' = r.data
           /\ result' = <<"has", e, key, None, r.raised, r.ret>>
    /\ UNCHANGED <<kind, pre2021, update_interval, updated_once, last_active,
                   now, pc, calls, last_fetch, last_result, fresh>>

\* entity e calls self.exactly(value)
Exactly(e, value) ==
    /\ LET r == exactly(data, EntityKey(e), value)
       IN  /\ data' = r.data
           /\ result' = <<"exactly", e, value, None, r.raised, r.ret>>
    /\ UNCHANGED <<kind, pre2021, update_interval, updated_once, last_active,
                   now, pc, calls, last_fetch, last_result, fresh>>

\* time passes
Advance ==
    /\ now + TimeStep <= MaxNow
    /\ now' = now + TimeStep
    /\ UNCHANGED <<kind, pre2021, data, update_interval, updated_once,
                   last_active, pc, calls, last_fetch, last_result, fresh>>

----------------------------------------------------------------------------
(* sensor.py: the vehicle sensors                                           *)

\* a datetime, in seconds
Datetime(t) == <<"datetime", t>>

\* the vehicle sensors under study: two metric sensors, of the descriptions
\* at lines 218-227 and 350-359, and the time sensor of lines 447-453
MetricSensors == {"shift_state", "minutes_to_full_charge"}
TimeSensors == {"minutes_to_full_charge_timestamp"}
Sensors == MetricSensors \cup TimeSensors

\* description.key
SensorKey(s) ==
    IF s = "shift_state" THEN "drive_state_shift_state"
    ELSE "charge_state_minutes_to_full_charge"

\* ShiftStates.get(str(x), "p")
ShiftStatesGet(x) ==
    CASE x = Str("P") -> Str("p")
      [] x = Str("D") -> Str("d")
      [] x = Str("R") -> Str("r")
      [] x = Str("N") -> Str("n")
      [] OTHER -> Str("p")

\* entity_description.available_fn(x): True for the shift state, "x is not
\* None and x > 0" for the minutes to full charge
available_fn(s, x) ==
    IF s = "shift_state" THEN TRUE
    ELSE Kind(x) = "num" /\ Val(x) > 0

\* entity_description.value_fn(x)
value_fn(s, x) == IF s = "shift_state" THEN ShiftStatesGet(x) ELSE x

\* self._value of a vehicle entity: the cached value of its key, None when
\* the cache does not hold the key
SensorValue(d, s) == DictGet(d, SensorKey(s), None)

\* lines 1104-1114, TeslemetryVehicleSensorEntity._async_update_attrs of
\* sensor s, x being self._value and once coordinator.updated_once
VehicleSensorUpdateAttrs(attrs, once, x, s) ==
    IF once
    THEN IF available_fn(s, x)
         THEN [attrs EXCEPT !.available = TRUE, !.native_value = value_fn(s, x)]
         ELSE [attrs EXCEPT !.available = FALSE, !.native_value = None]
    ELSE [attrs EXCEPT !.native_value = None]

\* lines 1144-1157, TeslemetryVehicleTimeSensorEntity._async_update_attrs at
\* time t; _get_timestamp(value) is t + value minutes
TimeSensorUpdateAttrs(attrs, once, x, t) ==
    IF ~once THEN attrs
    ELSE LET a1 == [attrs EXCEPT !.available = (Kind(x) = "num" /\ Val(x) > 0)]
         IN  IF x = a1.last_value THEN a1
             ELSE [a1 EXCEPT !.last_value = x,
                             !.native_value = IF Kind(x) = "num"
                                              THEN Datetime(t + 60 * Val(x))
                                              ELSE None]

\* the attributes of sensor s
SensorAttrs(s) ==
    [native_value |-> native_value[s], available |-> available[s],
     last_value |-> last_value]

\* the coordinator tells its listeners that the cache changed: every vehicle
\* sensor updates its attributes from the new cache
SensorsUpdated ==
    LET upd(s) == IF s \in TimeSensors
                  THEN TimeSensorUpdateAttrs(SensorAttrs(s), updated_once',
                                             SensorValue(data', s), now')
                  ELSE VehicleSensorUpdateAttrs(SensorAttrs(s), updated_once',
                                                SensorValue(data', s), s)
    IN  /\ native_value' = [s \in Sensors |-> upd(s).native_value]
        /\ available' = [s \in Sensors |-> upd(s).available]
        /\ last_value' = upd("minutes_to_full_charge_timestamp").last_value

----------------------------------------------------------------------------
(* entity.py: TeslemetryVehicleEntity.wake_up_if_asleep *)

\* line 119: wait += 5, and line 120: wait >= 15
WAKE_STEP == 5
WAKE_LIMIT == 15

\* what an awaited wake_up() can do
WakeOutcomes ==
    {Raise("TeslaFleetError"), Return(None)}
    \cup {Return(Dict([response |-> Dict([state |-> st])])) : st \in {ONLINE, ASLEEP}}

\* (a variant that lets every caller through)
CanAcquireAlways(lock) == TRUE
\* asyncio.Lock: acquire() goes through only while the lock is free
CanAcquire(lock) == lock = 0

\* (a variant that releases the lock on a normal return only)
AExitOnReturnOnly(lock, how) == IF how = "return" THEN 0 ELSE lock
\* the holder of the lock once "async with self._wakelock" is left, by a
\* return or by the exception how
AExit(lock, how) == 0

\* (await self.api.wake_up())["response"]["state"]:
\* <<TRUE, state>> or <<FALSE, exception>>
WakeState(out) ==
    IF Kind(out) = "raise" THEN <<FALSE, Val(out)>>
    ELSE LET r == Subscript(Val(out), "response")
         IN  IF ~r[1] THEN r ELSE Subscript(r[2], "state")

\* (a variant without the test that gives up)
WakeBodyNeverGivingUp(d, w, out) ==
    LET st == WakeState(out)
    IN  IF ~st[1]
        THEN [data |-> d, wait |-> w,
              ends |-> IF st[2] \in TeslaFleetErrors THEN "HomeAssistantError" ELSE st[2]]
        ELSE IF ~IsDict(d) THEN [data |-> d, wait |-> w, ends |-> "TypeError"]
        ELSE IF st[2] = ONLINE
        THEN [data |-> SetItem(d, "state", ONLINE), wait |-> w, ends |-> "loop"]
        ELSE [data |-> SetItem(d, "state", st[2]), wait |-> w + WAKE_STEP,
              ends |-> "sleep"]

\* (a variant that leaves the loop whenever the vehicle is not asleep)
WakeConditionNotAsleep(d) ==
    LET st == Subscript(d, "state")
    IN  IF ~st[1] THEN st[2]
        ELSE IF st[2] = ASLEEP THEN "wake" ELSE "return"

\* (a variant that takes an API error for one more failed attempt)
WakeBodyRetrying(d, w, out) ==
    LET st == WakeState(out)
        w1 == w + WAKE_STEP
    IN  IF ~st[1] /\ st[2] \notin TeslaFleetErrors
        THEN [data |-> d, wait |-> w, ends |-> st[2]]
        ELSE IF st[1] /\ st[2] = ONLINE
        THEN [data |-> SetItem(d, "state", ONLINE), wait |-> w, ends |-> "loop"]
        ELSE [data |-> IF st[1] THEN SetItem(d, "state", st[2]) ELSE d,
              wait |-> w1,
              ends |-> IF w1 >= WAKE_LIMIT THEN "CouldNotWake" ELSE "sleep"]

\* lines 113-122, one pass of the loop body once wake_up() has ended with out:
\* the cache and wait after it, and how the pass ends: "loop" (back to the
\* while condition), "sleep" (await asyncio.sleep(wait)), or the exception raised
WakeBody(d, w, out) ==
    LET st == WakeState(out)
    IN  IF ~st[1]
        THEN [data |-> d, wait |-> w,
              ends |-> IF st[2] \in TeslaFleetErrors THEN "HomeAssistantError" ELSE st[2]]
        ELSE IF ~IsDict(d) THEN [data |-> d, wait |-> w, ends |-> "TypeError"]
        ELSE LET d1 == SetItem(d, "state", st[2])
                 w1 == w + WAKE_STEP
             IN  IF st[2] = ONLINE THEN [data |-> d1, wait |-> w, ends |-> "loop"]
                 ELSE IF w1 >= WAKE_LIMIT
                 THEN [data |-> d1, wait |-> w1, ends |-> "CouldNotWake"]
                 ELSE [data |-> d1, wait |-> w1, ends |-> "sleep"]

\* line 112: the while condition, "wake" (enter the body), "return" (leave
\* the loop and the function) or the exception of data["state"]
WakeCondition(d) ==
    LET st == Subscript(d, "state")
    IN  IF ~st[1] THEN st[2]
        ELSE IF st[2] # ONLINE THEN "wake" ELSE "return"

\* caller i is at the while condition, holding the lock
LoopHead(i) ==
    LET c == WakeCondition(data)
    IN  IF c = "wake"
        THEN /\ wpc' = [wpc EXCEPT ![i] = "waking"]
             /\ attempts' = [attempts EXCEPT ![i] = Append(@, slept[i])]
             /\ wakelock' = i
        ELSE /\ wpc' = [wpc EXCEPT ![i] = c]
             /\ attempts' = attempts
             /\ wakelock' = AExit(i, c)

\* wake_up_if_asleep() is called and reaches "async with self._wakelock"
Call(i) ==
    /\ wpc[i] = "idle"
    /\ wpc' = [wpc EXCEPT ![i] = "locking"]
    /\ UNCHANGED <<cvars, now, fresh, wakelock, wait, attempts, slept>>

\* the lock is acquired; wait = 0 and the first test of the while condition
Acquire(i) ==
    /\ wpc[i] = "locking"
    /\ CanAcquire(wakelock)
    /\ wait' = [wait EXCEPT ![i] = 0]
    /\ LoopHead(i)
    /\ UNCHANGED <<cvars, now, fresh, slept>>

\* the awaited wake_up() ends with out; the rest of the loop body runs
WakeReturns(i, out) ==
    /\ wpc[i] = "waking"
    /\ LET b == WakeBody(data, wait[i], out)
       IN  /\ data' = b.data
           /\ wait' = [wait EXCEPT ![i] = b.wait]
           /\ IF b.ends = "sleep"
              THEN /\ wpc' = [wpc EXCEPT ![i] = "sleeping"]
                   /\ slept' = [slept EXCEPT ![i] = @ + b.wait]
                   /\ UNCHANGED <<wakelock, attempts>>
              ELSE IF b.ends = "loop"
              THEN /\ LET c == WakeCondition(b.data)
                      IN  IF c = "wake"
                          THEN /\ wpc' = [wpc EXCEPT ![i] = "waking"]
                               /\ attempts' = [attempts EXCEPT ![i] = Append(@, slept[i])]
                               /\ wakelock' = wakelock
                          ELSE /\ wpc' = [wpc EXCEPT ![i] = c]
                               /\ attempts' = attempts
                               /\ wakelock' = AExit(wakelock, c)
                   /\ slept' = slept
              ELSE /\ wpc' = [wpc EXCEPT ![i] = b.ends]
                   /\ wakelock' = AExit(wakelock, b.ends)
                   /\ UNCHANGED <<attempts, slept>>
    /\ UNCHANGED <<kind, pre2021, update_interval, updated_once, last_active,
                   pc, calls, last_fetch, last_result, now, fresh>>

\* asyncio.sleep(wait) is over; back to the while condition
SleepDone(i) ==
    /\ wpc[i] = "sleeping"
    /\ LoopHead(i)
    /\ UNCHANGED <<cvars, now, fresh, wait, slept>>

\* the invocation is over for its caller, who may call again
Finished(i) == wpc[i] \notin {"idle", "locking", "waking", "sleeping"}

Forget(i) ==
    /\ Finished(i)
    /\ wpc' = [wpc EXCEPT ![i] = "idle"]
    /\ wait' = [wait EXCEPT ![i] = 0]
    /\ attempts' = [attempts EXCEPT ![i] = <<>>]
    /\ slept' = [slept EXCEPT ![i] = 0]
    /\ UNCHANGED <<cvars, now, fresh, wakelock>>

----------------------------------------------------------------------------
(* The coordinator with its observers *)

WakeIdle ==
    /\ wakelock = 0
    /\ wpc = [i \in Callers |-> "idle"]
    /\ wait = [i \in Callers |-> 0]
    /\ attempts = [i \in Callers |-> <<>>]
    /\ slept = [i \in Callers |-> 0]

\* no call of the facade's readers yet, no call of flatten under study
FacadeIdle ==
    /\ result = NoCall
    /\ superseded = FALSE
FlattenIdle ==
    /\ tree = None
    /\ flat = NotCalled
    /\ reflat = NotCalled
\* the sensors as constructed: no value, available, and no fetch yet
SensorIdle ==
    /\ native_value = [s \in Sensors |-> None]
    /\ available = [s \in Sensors |-> TRUE]
    /\ last_value = None
    /\ fetched = FALSE

Init == CoordinatorInit /\ WakeIdle /\ FacadeIdle /\ FlattenIdle /\ SensorIdle

Next ==
    \/ StartRefresh /\ UNCHANGED <<wvars, fvars, svars, result, superseded>>
    \/ \E out \in FetchOutcomes :
          FinishRefresh(out) /\ UNCHANGED <<wvars, fvars, svars, result, superseded>>
    \/ \E e \in Entities : \E args \in WriteArgs :
          Set(e, args) /\ UNCHANGED <<wvars, fvars, svars, result, superseded>>
    \/ Advance /\ UNCHANGED <<wvars, fvars, svars, result, superseded>>

Spec == Init /\ [][Next]_vars

----------------------------------------------------------------------------
(* A vehicle, its coordinator and the callers of wake_up_if_asleep.  The    *)
(* clock of the sleep policy stands still here; the delays of the wake loop *)
(* are counted in slept.                                                    *)

WakeInit == Init /\ kind = "vehicle"

\* the fetch outcomes that change the cached state under the wake loop: the
\* vehicle is offline, or it answers
WakeFetchOutcomes ==
    {Raise("VehicleOffline"),
     Return(Dict([response |-> VehicleData("Stopped", FALSE, FALSE)]))}

WakeNext ==
    \/ \E i \in Callers : Call(i) /\ UNCHANGED <<fvars, svars, result, superseded>>
    \/ \E i \in Callers : Acquire(i) /\ UNCHANGED <<fvars, svars, result, superseded>>
    \/ \E i \in Callers : \E out \in WakeOutcomes :
          WakeReturns(i, out) /\ UNCHANGED <<fvars, svars, result, superseded>>
    \/ \E i \in Callers : SleepDone(i) /\ UNCHANGED <<fvars, svars, result, superseded>>
    \/ \E i \in Callers : Forget(i) /\ UNCHANGED <<fvars, svars, result, superseded>>
    \/ StartRefresh /\ UNCHANGED <<wvars, fvars, svars, result, superseded>>
    \/ \E out \in WakeFetchOutcomes :
          FinishRefresh(out) /\ UNCHANGED <<wvars, fvars, svars, result, superseded>>

WakeSpec == WakeInit /\ [][WakeNext]_vars

\* one step of caller i's invocation, as WakeNext takes it
WakeLockStep(i) == Acquire(i) /\ UNCHANGED <<fvars, svars, result, superseded>>
WakeCommandStep(i) ==
    (\E out \in WakeOutcomes : WakeReturns(i, out))
        /\ UNCHANGED <<fvars, svars, result, superseded>>
WakeSleepStep(i) == SleepDone(i) /\ UNCHANGED <<fvars, svars, result, superseded>>

\* the scheduling of an invocation: asyncio.Lock wakes its waiters first in,
\* first out, so a caller that finds the lock free again and again gets it;
\* asyncio.sleep(wait) ends; and every awaited wake_up() returns or raises
WakeFairness ==
    \A i \in Callers :
        /\ SF_vars(WakeLockStep(i))
        /\ WF_vars(WakeCommandStep(i))
        /\ WF_vars(WakeSleepStep(i))

\* each caller invokes wake_up_if_asleep() once, while the coordinator
\* refreshes
WakeLiveNext ==
    \/ \E i \in Callers : Call(i) /\ UNCHANGED <<fvars, svars, result, superseded>>
    \/ \E i \in Callers : WakeLockStep(i)
    \/ \E i \in Callers : WakeCommandStep(i)
    \/ \E i \in Callers : WakeSleepStep(i)
    \/ StartRefresh /\ UNCHANGED <<wvars, fvars, svars, result, superseded>>
    \/ \E out \in WakeFetchOutcomes :
          FinishRefresh(out) /\ UNCHANGED <<wvars, fvars, svars, result, superseded>>

\* the sleep policy plays no part in the wake loop: a vehicle without it
WakeLiveInit == WakeInit /\ ~pre2021

WakeLiveSpec == WakeLiveInit /\ [][WakeLiveNext]_vars /\ WakeFairness

----------------------------------------------------------------------------
(* A pre-2021 vehicle and its coordinator, polled again and again while     *)
(* time passes.                                                             *)

SleepInit == Init /\ kind = "vehicle" /\ pre2021

\* the vehicle answers, idle or charging, or is offline, or the API fails
SleepFetchOutcomes ==
    {Return(Dict([response |-> VehicleData("Stopped", FALSE, FALSE)])),
     Return(Dict([response |-> VehicleData("Charging", FALSE, FALSE)])),
     Raise("VehicleOffline"),
     Raise("TeslaFleetError")}

SleepStart == StartRefresh /\ UNCHANGED <<wvars, fvars, svars, result, superseded>>
SleepFinish ==
    (\E out \in SleepFetchOutcomes : FinishRefresh(out))
        /\ UNCHANGED <<wvars, fvars, svars, result, superseded>>
SleepAdvance == Advance /\ UNCHANGED <<wvars, fvars, svars, result, superseded>>

SleepNext == SleepStart \/ SleepFinish \/ SleepAdvance

\* the coordinator keeps being polled, every fetch ends, and time passes
SleepFairness ==
    /\ WF_vars(SleepStart)
    /\ WF_vars(SleepFinish)
    /\ WF_vars(SleepAdvance)

SleepSpec == SleepInit /\ [][SleepNext]_vars /\ SleepFairness

----------------------------------------------------------------------------
(* A vehicle, its coordinator and the vehicle's sensors, which update their *)
(* attributes whenever the coordinator has changed the cache.               *)

SensorInit == Init /\ kind = "vehicle"

\* what the vehicle answers: it drives and charges, it is parked with
\* nothing known about the charge, or the answer holds no drive state
SensorResponses ==
    {Dict([state |-> ONLINE,
           drive_state |-> Dict([shift_state |-> Str("D")]),
           charge_state |-> Dict([charging_state |-> Str("Charging"),
                                  minutes_to_full_charge |-> Num(30)]),
           vehicle_state |-> Dict([sentry_mode |-> Bool(FALSE)])]),
     Dict([state |-> ONLINE,
           drive_state |-> Dict([shift_state |-> None]),
           charge_state |-> Dict([charging_state |-> Str("Stopped"),
                                  minutes_to_full_charge |-> Num(0)]),
           vehicle_state |-> Dict([sentry_mode |-> Bool(FALSE)])]),
     Dict([state |-> ONLINE,
           charge_state |-> Dict([charging_state |-> Str("Stopped"),
                                  minutes_to_full_charge |-> None]),
           vehicle_state |-> Dict([sentry_mode |-> Bool(FALSE)])])}

\* the fetch outcomes of this specification: the vehicle is offline, the API
\* fails, it answers, or its answer holds no response
SensorFetchOutcomes ==
    {Raise("VehicleOffline"), Raise("TeslaFleetError"),
     Return(Dict([response |-> None]))}
    \cup {Return(Dict([response |-> d])) : d \in SensorResponses}

\* a refresh ends; when it ends with success the listeners are told
SensorRefreshEnds(out) ==
    /\ FinishRefresh(out)
    /\ IF last_result' = "success"
       THEN SensorsUpdated
       ELSE UNCHANGED <<native_value, available, last_value>>
    /\ fetched' = (fetched \/ (last_result' = "success" /\ Response(out)[1]))

SensorNext ==
    \/ StartRefresh /\ UNCHANGED <<wvars, fvars, svars, result, superseded>>
    \/ \E out \in SensorFetchOutcomes :
          SensorRefreshEnds(out) /\ UNCHANGED <<wvars, fvars, result, superseded>>
    \/ Advance /\ UNCHANGED <<wvars, fvars, svars, result, superseded>>

SensorSpec == SensorInit /\ [][SensorNext]_vars

----------------------------------------------------------------------------
(* A coordinator and the entities that read and write its cache.  The clock *)
(* stands still here.                                                       *)

\* responses with a null leaf, which the API sends for values it does not know
NullResponses ==
    [vehicle |-> {Dict([state |-> ONLINE,
                        charge_state |-> Dict([charging_state |-> None,
                                               charge_port_door_open |-> None]),
                        vehicle_state |-> Dict([is_user_present |-> Bool(FALSE),
                                                sentry_mode |-> Bool(FALSE)])])},
     energy_live |-> {Dict([solar_power |-> None,
                            wall_connectors |->
                                List(<<Dict([din |-> Str("X1"), power |-> Num(500)]),
                                       Dict([din |-> Str("X2"), power |-> None])>>)])},
     energy_info |-> {Dict([site_name |-> None])}]

\* the fetch outcomes of this specification: the vehicle is offline, the API
\* fails, or it answers; of the vehicle's answers one without null leaf
CacheFetchOutcomes ==
    {Raise("VehicleOffline"), Raise("TeslaFleetError")}
    \cup {Return(Dict([response |-> d])) :
             d \in NullResponses[kind] \cup
                   (IF kind = "vehicle" THEN {VehicleData("Stopped", FALSE, FALSE)}
                    ELSE Responses[kind])}

\* the values the entities set
SetPairs == UNION {{args[i] : i \in DOMAIN args} : args \in WriteArgs}

\* the keys of cache d that hold a value an entity has set; no modelled
\* response holds such a value
SetKeys(d) ==
    IF ~IsDict(d) THEN {}
    ELSE {p[1] : p \in {q \in SetPairs : q[1] \in DOMAIN Val(d) /\ Val(d)[q[1]] = q[2]}}

CacheNext ==
    \/ /\ StartRefresh
       /\ result' = NoCall
       /\ UNCHANGED <<wvars, fvars, svars, superseded>>
    \/ \E out \in CacheFetchOutcomes :
          /\ FinishRefresh(out)
          /\ result' = NoCall
          /\ superseded' = (last_result' = "success" /\ SetKeys(data) \ SetKeys(data') # {})
          /\ UNCHANGED <<wvars, fvars, svars>>
    \/ \E e \in Entities : \E args \in WriteArgs :
          /\ Set(e, args)
          /\ result' = NoCall
          /\ UNCHANGED <<wvars, fvars, svars, superseded>>
    \/ \E e \in Entities : \E key \in ReadKeys : \E default \in ReadDefaults :
          Get(e, key, default) /\ UNCHANGED <<wvars, fvars, svars, superseded>>
    \/ \E e \in Entities : \E key \in ReadKeys :
          Has(e, key) /\ UNCHANGED <<wvars, fvars, svars, superseded>>
    \/ \E e \in Entities : \E value \in ExactlyValues :
          Exactly(e, value) /\ UNCHANGED <<wvars, fvars, svars, superseded>>

CacheSpec == Init /\ [][CacheNext]_vars

----------------------------------------------------------------------------
(* flatten on its own: a tree is chosen, flatten is applied to it and then  *)
(* to its result                                                            *)

TreeKeys == {"a", "b"}
TreeLeaves == {Num(1), Num(2)}
\* the dicts with keys among keys and values among vals
DictsOver(keys, vals) == {Dict(f) : f \in UNION {[S -> vals] : S \in SUBSET keys}}
FlatTrees == DictsOver(TreeKeys, TreeLeaves)
TwoLevelTrees == DictsOver(TreeKeys, TreeLeaves \cup FlatTrees)
ThreeLevelTrees == DictsOver(TreeKeys, TreeLeaves \cup TwoLevelTrees)

\* trees with the keys and leaves JSON also allows: a key that holds an
\* underscore, the empty key, null, a list
OddTrees ==
    {Dict([a |-> Dict([b |-> Num(1), c |-> Dict([d |-> Num(2)])])]),
     Dict([a |-> Dict([b |-> Num(1)]), a_b |-> Num(2)]),
     Dict([a_b |-> Dict([c |-> Num(1)]), a |-> Dict([b_c |-> Num(1)])]),
     Dict([a_b |-> Num(1), c |-> None]),
     Dict([a |-> List(<<Dict([b |-> Num(1)])>>), b |-> Dict([c |-> None])]),
     Dict(("" :> Dict([b |-> Num(1)]))),
     Dict(("" :> Num(1)) @@ [a |-> Num(2)]),
     Dict([a |-> Dict(("" :> Num(1)))])}

Trees == ThreeLevelTrees \cup OddTrees

FlattenInit ==
    /\ CoordinatorInit
    /\ kind = "energy_info"
    /\ WakeIdle
    /\ FacadeIdle
    /\ SensorIdle
    /\ tree \in Trees
    /\ flat = NotCalled
    /\ reflat = NotCalled

\* flat = flatten(tree)
FlattenTree ==
    /\ flat = NotCalled
    /\ flat' \in Flattenings(tree)
    /\ tree' = flattenArg(tree)
    /\ UNCHANGED <<cvars, now, fresh, wvars, svars, result, superseded, reflat>>

\* reflat = flatten(flat)
FlattenAgain ==
    /\ flat # NotCalled
    /\ reflat = NotCalled
    /\ reflat' \in Flattenings(flat)
    /\ flat' = flattenArg(flat)
    /\ UNCHANGED <<cvars, now, fresh, wvars, svars, result, superseded, tree>>

FlattenNext == FlattenTree \/ FlattenAgain

FlattenSpec == FlattenInit /\ [][FlattenNext]_vars

----------------------------------------------------------------------------
(* Properties *)

InLoop(i) == wpc[i] \in {"waking", "sleeping"}

\* C2: an invocation that ends with "Could not wake up vehicle" has issued
\* exactly 4 wake commands, 0 s, 5 s, 10 s and 15 s after its start.
C2_FourAttempts ==
    \A i \in Callers : wpc[i] = "CouldNotWake" => attempts[i] = <<0, 5, 10, 15>>

\* C3: the delay after the k-th failed wake command is 5*k seconds, and
\* "Could not wake up vehicle" is raised only after 30 s of delays.
C3_ThirtySecondBudget ==
    \A i \in Callers :
        /\ wpc[i] = "sleeping" => wait[i] = 5 * Len(attempts[i])
        /\ wpc[i] = "CouldNotWake" => slept[i] >= 30

\* C4: the wake lock is held only by an invocation that is inside the loop;
\* once an invocation is over, however it ended, it does not hold the lock.
C4_LockReleasedOnExit ==
    /\ \A i \in Callers : Finished(i) => wakelock # i
    /\ wakelock # 0 => InLoop(wakelock)

C4_Witness ==
    \E i, j \in Callers :
        /\ wpc[i] = "HomeAssistantError"
        /\ wpc[j] = "waking"
        /\ wakelock = j

\* C5: at most one caller is inside the wake loop, it holds the lock, and so
\* at most one wake command is outstanding.
C5_OneCallerInLoop ==
    /\ Cardinality({i \in Callers : InLoop(i)}) <= 1
    /\ \A i \in Callers : InLoop(i) => wakelock = i

C5_Witness ==
    \E i, j \in Callers :
        /\ wpc[i] = "sleeping"
        /\ Len(attempts[i]) = 2
        /\ wpc[j] = "locking"

\* C6: when wake_up() raises an API error the invocation ends at once with
\* HomeAssistantError: the step issues no wake command and begins no delay,
\* leaves the cache as it is, and the invocation does nothing afterwards.
C6_ErrorIsFatal ==
    [][\A i \in Callers :
          /\ WakeReturns(i, Raise("TeslaFleetError")) =>
                /\ wpc'[i] = "HomeAssistantError"
                /\ data' = data
                /\ attempts'[i] = attempts[i]
                /\ slept'[i] = slept[i]
          /\ wpc[i] = "HomeAssistantError" =>
                /\ wpc'[i] \in {"HomeAssistantError", "idle"}
                /\ wpc'[i] = "HomeAssistantError" =>
                      attempts'[i] = attempts[i] /\ slept'[i] = slept[i]]_vars

C6_Witness ==
    \E i \in Callers :
        /\ wpc[i] = "HomeAssistantError"
        /\ Len(attempts[i]) = 2
        /\ slept[i] = 5

\* which except clause of the coordinator's _async_update_data takes e
Except(e) ==
    CASE kind = "vehicle" -> VehicleExcept(e)
      [] kind = "energy_live" -> EnergyLiveExcept(e)
      [] kind = "energy_info" -> EnergyInfoExcept(e)

\* C7: a fetch that raised InvalidToken, SubscriptionRequired or Forbidden
\* ended the refresh as an authentication failure, for every coordinator.
C7_AuthClassified ==
    last_fetch \in AuthErrors => last_result = "auth_failed"

\* C8: a fetch that raised an auth error ended the refresh in another way than
\* a generic API error ends it, and the refresh issued one fetch only.
C8_AuthDistinctFromFatal ==
    /\ last_fetch \in AuthErrors => last_result # ResultOf(Except("TeslaFleetError"))
    /\ calls <= 1

\* C10: a refresh that ends in UpdateFailed or ConfigEntryAuthFailed changes
\* nothing in the cache, neither when it starts nor when it ends.
C10_FailureKeepsCache ==
    [][(\/ pc = "idle" /\ pc' = "fetching"
        \/ /\ pc = "fetching" /\ pc' = "idle"
           /\ last_result' \in {"update_failed", "auth_failed"})
       => data' = data]_vars

C10_Witness ==
    /\ last_result \in {"update_failed", "auth_failed"}
    /\ updated_once
    /\ IsDict(data)
    /\ "vehicle_state_fd_window" \in DOMAIN Val(data)

----------------------------------------------------------------------------
(* Properties of the vehicle coordinator's refresh and sleep policy *)

\* this step is the end of a vehicle refresh whose fetch had outcome out
VehicleFetched(out) ==
    /\ kind = "vehicle"
    /\ pc = "fetching"
    /\ pc' = "idle"
    /\ FinishRefresh(out)

\* this step ends a refresh of a pre-2021 vehicle
OldVehicleRefreshEnds ==
    /\ kind = "vehicle"
    /\ pre2021
    /\ pc = "fetching"
    /\ pc' = "idle"

\* out is a response that the sleep policy reads as active / as idle
ActiveResponse(out) == Response(out)[1] /\ Activity(Response(out)[2]) = "active"
IdleResponse(out) == Response(out)[1] /\ Activity(Response(out)[2]) = "idle"

\* now - self.last_active
Elapsed == now - last_active

\* C11: a vehicle refresh whose fetch raises VehicleOffline leaves
\* data["state"] = OFFLINE and the interval at VEHICLE_INTERVAL, whatever the
\* interval, the idle time and the vehicle's class were.
C11_OfflineResets ==
    [][VehicleFetched(Raise("VehicleOffline")) =>
          /\ Subscript(data', "state") = <<TRUE, OFFLINE>>
          /\ update_interval' = VEHICLE_INTERVAL]_vars

C11_Witness ==
    /\ kind = "vehicle"
    /\ pre2021
    /\ updated_once
    /\ last_fetch = "VehicleOffline"
    /\ Elapsed > SLEEP_END
    /\ Subscript(data, "state") = <<TRUE, OFFLINE>>
    /\ update_interval = VEHICLE_INTERVAL

\* C12: a vehicle refresh whose fetch raised VehicleOffline ended as a
\* successful update, neither UpdateFailed nor ConfigEntryAuthFailed.
C12_OfflineIsNoError ==
    (kind = "vehicle" /\ last_fetch = "VehicleOffline") => last_result = "success"

C12_Witness ==
    /\ kind = "vehicle"
    /\ last_fetch = "VehicleOffline"
    /\ last_result = "success"
    /\ pc = "idle"

\* C13 as claimed: for a pre-2021 vehicle the interval goes from VEHICLE_WAIT
\* back to VEHICLE_INTERVAL only in a refresh that saw an activity signal, or
\* once the sleep window (20 minutes since last_active) has elapsed.
C13_NarrowsOnlyOnActivity ==
    [][(/\ kind = "vehicle" /\ pre2021
        /\ update_interval = VEHICLE_WAIT
        /\ update_interval' = VEHICLE_INTERVAL)
       => \/ \E out \in FetchOutcomes : ActiveResponse(out) /\ FinishRefresh(out)
          \/ Elapsed > SLEEP_END]_vars

\* C13 as amended: for a pre-2021 vehicle the interval goes from VEHICLE_WAIT
\* back to VEHICLE_INTERVAL only in a refresh that saw an activity signal or
\* whose fetch raised VehicleOffline.
C13_NarrowsOnActivityOrOffline ==
    [][(/\ kind = "vehicle" /\ pre2021
        /\ update_interval = VEHICLE_WAIT
        /\ update_interval' = VEHICLE_INTERVAL)
       => \/ \E out \in FetchOutcomes : ActiveResponse(out) /\ FinishRefresh(out)
          \/ FinishRefresh(Raise("VehicleOffline"))]_vars

C13_Witness ==
    /\ kind = "vehicle"
    /\ pre2021
    /\ update_interval = VEHICLE_WAIT
    /\ last_active > 0
    /\ Elapsed > 0
    /\ last_fetch = "returned"
    /\ last_result = "success"

\* C14: for a pre-2021 vehicle a successful fetch without activity signal,
\* 15 min < now - last_active <= 20 min, sets the interval to VEHICLE_WAIT and
\* leaves last_active.
C14_EnterSleep ==
    [][(OldVehicleRefreshEnds /\ SLEEP_START < Elapsed /\ Elapsed <= SLEEP_END) =>
       \A out \in FetchOutcomes :
          (IdleResponse(out) /\ FinishRefresh(out))
          => /\ update_interval' = VEHICLE_WAIT
             /\ last_active' = last_active
             /\ last_result' = "success"]_vars

C14_Witness ==
    /\ kind = "vehicle"
    /\ pre2021
    /\ pc = "idle"
    /\ last_fetch = "returned"
    /\ last_result = "success"
    /\ update_interval = VEHICLE_WAIT
    /\ last_active = 0
    /\ SLEEP_START < Elapsed /\ Elapsed <= SLEEP_END

\* C15: for a pre-2021 vehicle a successful fetch without activity signal,
\* now - last_active > 20 min, sets the interval to VEHICLE_WAIT and last_active
\* to now.
C15_EndSleep ==
    [][(OldVehicleRefreshEnds /\ Elapsed > SLEEP_END) =>
       \A out \in FetchOutcomes :
          (IdleResponse(out) /\ FinishRefresh(out))
          => /\ update_interval' = VEHICLE_WAIT
             /\ last_active' = now
             /\ last_result' = "success"]_vars

C15_Witness ==
    /\ kind = "vehicle"
    /\ pre2021
    /\ last_fetch = "returned"
    /\ last_result = "success"
    /\ update_interval = VEHICLE_WAIT
    /\ last_active = now
    /\ now > SLEEP_END

\* C16: for a pre-2021 vehicle a successful fetch that shows charging, a user
\* present or sentry mode sets last_active to now and the interval to
\* VEHICLE_INTERVAL.
C16_ActivityResets ==
    [][OldVehicleRefreshEnds =>
       \A out \in FetchOutcomes :
          (ActiveResponse(out) /\ FinishRefresh(out))
          => /\ update_interval' = VEHICLE_INTERVAL
             /\ last_active' = now]_vars

C16_Witness ==
    /\ kind = "vehicle"
    /\ pre2021
    /\ last_fetch = "returned"
    /\ last_result = "success"
    /\ Subscript(data, "vehicle_state_sentry_mode") = <<TRUE, Bool(TRUE)>>
    /\ update_interval = VEHICLE_INTERVAL
    /\ last_active = now
    /\ now > SLEEP_END

\* C17: for a pre-2021 vehicle a successful fetch without activity signal,
\* now - last_active <= 15 min, changes neither the interval nor last_active.
C17_NoChangeWithinThreshold ==
    [][(OldVehicleRefreshEnds /\ Elapsed <= SLEEP_START) =>
       \A out \in FetchOutcomes :
          (IdleResponse(out) /\ FinishRefresh(out))
          => /\ update_interval' = update_interval
             /\ last_active' = last_active]_vars

C17_Witness ==
    /\ kind = "vehicle"
    /\ pre2021
    /\ pc = "idle"
    /\ last_fetch = "returned"
    /\ last_result = "success"
    /\ update_interval = VEHICLE_WAIT
    /\ last_active > 0
    /\ 0 < Elapsed /\ Elapsed <= SLEEP_START

\* C18: a vehicle that is not pre-2021 keeps the interval VEHICLE_INTERVAL and
\* the last_active of its construction in every state.
C18_NoPolicyForNewVehicles ==
    (kind = "vehicle" /\ ~pre2021) =>
        /\ update_interval = VEHICLE_INTERVAL
        /\ last_active = 0

C18_Witness ==
    /\ kind = "vehicle"
    /\ ~pre2021
    /\ updated_once
    /\ last_fetch = "returned"
    /\ last_result = "success"
    /\ now > SLEEP_END

\* C19: the interval of a vehicle coordinator is VEHICLE_INTERVAL or
\* VEHICLE_WAIT in every state, and VEHICLE_INTERVAL until a refresh has ended.
C19_IntervalRange ==
    kind = "vehicle" =>
        /\ update_interval \in {VEHICLE_INTERVAL, VEHICLE_WAIT}
        /\ last_fetch = "" => update_interval = VEHICLE_INTERVAL

C19_Witness ==
    /\ kind = "vehicle"
    /\ update_interval = VEHICLE_WAIT
    /\ last_active = now
    /\ now > SLEEP_END

\* C20: updated_once changes only from false to true, in the step that ends a
\* fetch successfully, and every such step leaves it true.
C20_UpdatedOnceOnSuccess ==
    [][kind = "vehicle" =>
          /\ updated_once' # updated_once =>
                /\ updated_once'
                /\ last_fetch' = "returned"
                /\ last_result' = "success"
          /\ (pc = "fetching" /\ last_fetch' = "returned" /\ last_result' = "success")
                => updated_once']_vars

----------------------------------------------------------------------------
(* Trees, their leaves and the paths to them *)

RECURSIVE LeafPaths(_)
\* the leaves of tree x, each with its path: <<sequence of keys, value>>
LeafPaths(x) ==
    UNION { IF IsDict(Val(x)[k0])
            THEN {<<(<<k0>>) \o p[1], p[2]>> : p \in LeafPaths(Val(x)[k0])}
            ELSE {<<(<<k0>>), Val(x)[k0]>>}
          : k0 \in DOMAIN Val(x) }

RECURSIVE JoinPath(_)
\* p1_p2_..._pn
JoinPath(path) ==
    IF Len(path) = 1 THEN path[1] ELSE path[1] \o "_" \o JoinPath(Tail(path))

\* no two leaves of x have the same joined path
NoCollision(x) ==
    \A p, q \in LeafPaths(x) : JoinPath(p[1]) = JoinPath(q[1]) => p[1] = q[1]

\* x has no nested value
NoNested(x) == \A k0 \in DOMAIN Val(x) : ~IsDict(Val(x)[k0])

\* the mapping from every joined leaf path of x to its leaf
JoinedLeaves(x) ==
    LET leaves == LeafPaths(x)
    IN  Dict([fk \in {JoinPath(p[1]) : p \in leaves} |->
                 (CHOOSE p \in leaves : JoinPath(p[1]) = fk)[2]])

----------------------------------------------------------------------------
(* Properties of the cache and of the facade *)

\* this step ends a refresh with success
RefreshSucceeds == pc = "fetching" /\ pc' = "idle" /\ last_result' = "success"

\* the flattened form of response d, the wall connectors re-keyed for an
\* energy site's live status
FlattenedResponse(d) ==
    IF kind = "energy_live"
    THEN SetItem(JoinedLeaves(d), "wall_connectors", WallConnectors(d)[2])
    ELSE JoinedLeaves(d)

\* C21: after a refresh of any of the three coordinators whose fetch returned
\* and which ended with success, updated_once is true.
C21_UpdatedOnceEveryKind ==
    (last_fetch = "returned" /\ last_result = "success") => updated_once

\* C22: a refresh that ends with success on a fetched response leaves the
\* cache equal to the flattened response, for each of the three coordinators.
C22_CacheIsFlattened ==
    [][RefreshSucceeds =>
       \A out \in FetchOutcomes :
          (Response(out)[1] /\ FinishRefresh(out))
          => data' = FlattenedResponse(Response(out)[2])]_vars

\* C23: after a successful energy site live refresh the cache key
\* "wall_connectors" holds a mapping from each din of the response's list to
\* its entry, the empty mapping when the response has no list, null or [].
C23_WallConnectorsKeyed ==
    [][(kind = "energy_live" /\ RefreshSucceeds) =>
       \A out \in CacheFetchOutcomes :
          (Response(out)[1] /\ FinishRefresh(out))
          => LET got == DictGet(Response(out)[2], "wall_connectors", None)
                 wc == Subscript(data', "wall_connectors")
             IN  /\ wc[1]
                 /\ IsDict(wc[2])
                 /\ IF Kind(got) = "list"
                    THEN /\ DOMAIN Val(wc[2]) =
                               {Val(Val(Val(got)[i])["din"]) : i \in DOMAIN Val(got)}
                         /\ \A i \in DOMAIN Val(got) :
                               Val(wc[2])[Val(Val(Val(got)[i])["din"])] = Val(got)[i]
                    ELSE wc[2] = EmptyDict]_vars

C23_Witness ==
    /\ kind = "energy_live"
    /\ last_fetch = "returned"
    /\ last_result = "success"
    /\ Subscript(data, "wall_connectors")[1]
    /\ DOMAIN Val(Val(data)["wall_connectors"]) = {"X1", "X2"}
    /\ Val(Val(data)["wall_connectors"])["X1"] = Dict([din |-> Str("X1"), power |-> Num(500)])

\* C24: set(*args) of one entity puts every pair into the cache and tells all
\* entities of the coordinator that the state changed, whether or not a
\* refresh is in flight.
C24_SetNotifiesAll ==
    [][\A e \in Entities : \A args \in WriteArgs :
          (IsDict(data) /\ Set(e, args))
          => /\ \A i \in DOMAIN args : Subscript(data', args[i][1]) = <<TRUE, args[i][2]>>
             /\ fresh' = Entities]_vars

\* C25: a vehicle refresh that ends with success on a fetched response leaves
\* the cache equal to the flattened response, whatever the entities had set
\* before or during the fetch; and every set() leaves its values in the cache.
C25_RefreshSupersedesWrites ==
    [][/\ (kind = "vehicle" /\ RefreshSucceeds) =>
          \A out \in CacheFetchOutcomes :
             (Response(out)[1] /\ FinishRefresh(out))
             => /\ data' = JoinedLeaves(Response(out)[2])
                /\ SetKeys(data') = {}
       /\ kind = "vehicle" =>
          \A e \in Entities : \A args \in WriteArgs :
             (IsDict(data) /\ Set(e, args))
             => \A i \in DOMAIN args :
                   Subscript(data', args[i][1]) = <<TRUE, args[i][2]>>]_vars

C25_Witness ==
    /\ kind = "vehicle"
    /\ superseded
    /\ last_fetch = "returned"
    /\ last_result = "success"
    /\ fresh = Entities
    /\ SetKeys(data) = {}
    /\ Subscript(data, "charge_state_charge_port_door_open") = <<TRUE, Bool(FALSE)>>

\* C26 as claimed: exactly(None) is true just when the entity's key is cached
\* with null; exactly(value), value not null, is unknown (None) when the key
\* is absent from the cache and else tells whether the cached value equals value.
C26_ExactlyUnknownIfAbsent ==
    [][\A e \in Entities : \A value \in ExactlyValues :
          (IsDict(data) /\ Exactly(e, value))
          => LET k == EntityKey(e)
                 ret == result'[6]
             IN  IF IsNone(value)
                 THEN ret = Bool(k \in DOMAIN Val(data) /\ IsNone(Val(data)[k]))
                 ELSE IF k \notin DOMAIN Val(data) THEN ret = None
                 ELSE ret = Bool(PyEq(Val(data)[k], value))]_vars

\* C26 as amended: exactly(None) is true just when the entity's key is cached
\* with null; exactly(value), value not null, is unknown (None) when the key
\* is absent from the cache or cached with null, and else tells whether the
\* cached value equals value.
C26_ExactlyUnknownIfAbsentOrNull ==
    [][\A e \in Entities : \A value \in ExactlyValues :
          (IsDict(data) /\ Exactly(e, value))
          => LET k == EntityKey(e)
                 ret == result'[6]
             IN  IF IsNone(value)
                 THEN ret = Bool(k \in DOMAIN Val(data) /\ IsNone(Val(data)[k]))
                 ELSE IF k \notin DOMAIN Val(data) THEN ret = None
                 ELSE IF IsNone(Val(data)[k]) THEN ret = None
                 ELSE ret = Bool(PyEq(Val(data)[k], value))]_vars

C26_Witness ==
    /\ result[1] = "exactly"
    /\ ~IsNone(result[3])
    /\ IsDict(data)
    /\ EntityKey(result[2]) \in DOMAIN Val(data)
    /\ IsNone(Val(data)[EntityKey(result[2])])
    /\ result[6] = None

\* C27: get(key, default) returns the cached value of the key, the default
\* when the key is absent, and has(key) tells whether the key is cached; both
\* leave the cache, update_interval, last_active and updated_once as they
\* were, start no fetch and write no entity's state.
C27_ReadersArePure ==
    [][/\ \A e \in Entities : \A key \in ReadKeys : \A default \in ReadDefaults :
             (IsDict(data) /\ Get(e, key, default))
             => LET k == IF IsNone(key) THEN EntityKey(e) ELSE Val(key)
                IN  /\ result'[6] = IF k \in DOMAIN Val(data) THEN Val(data)[k] ELSE default
                    /\ data' = data
                    /\ pc' = pc /\ calls' = calls /\ fresh' = fresh
                    /\ UNCHANGED <<update_interval, last_active, updated_once>>
       /\ \A e \in Entities : \A key \in ReadKeys :
             (IsDict(data) /\ Has(e, key))
             => LET k == IF IsNone(key) THEN EntityKey(e) ELSE Val(key)
                IN  /\ result'[6] = Bool(k \in DOMAIN Val(data))
                    /\ data' = data
                    /\ pc' = pc /\ calls' = calls /\ fresh' = fresh
                    /\ UNCHANGED <<update_interval, last_active, updated_once>>]_vars

C27_Witness ==
    /\ result[1] = "get"
    /\ IsNone(result[3])
    /\ result[4] = Num(0)
    /\ IsDict(data)
    /\ EntityKey(result[2]) \notin DOMAIN Val(data)
    /\ result[6] = Num(0)
    /\ pc = "fetching"

\* C28: a refresh whose fetch failed otherwise than by an auth failure or
\* vehicle-offline, or returned a response of unexpected shape, ends with
\* UpdateFailed.
C28_OtherFailuresAreFatal ==
    (/\ last_fetch \notin {""} \cup AuthErrors
     /\ last_result # "success")
    => last_result = "update_failed"

----------------------------------------------------------------------------
(* Properties of flatten *)

\* C29: for a tree without colliding joined paths, flatten returns exactly the
\* mapping from every joined leaf path p1_p2_..._pn to its leaf.
C29_FlattenJoinsPaths ==
    (flat # NotCalled /\ NoCollision(tree)) => flat = JoinedLeaves(tree)

\* C30: flatten leaves its argument as it was, returns a mapping equal to an
\* argument without nested values, and flatten(flatten(T)) = flatten(T).
C30_FlattenPureIdempotent ==
    [][/\ tree' = tree
       /\ (flat' # NotCalled /\ NoNested(tree')) => flat' = tree'
       /\ reflat' # NotCalled => (reflat' = flat' /\ flat' = flat)]_vars

C30_Witness ==
    /\ tree = Dict([a |-> Dict([b |-> Num(1), c |-> Dict([d |-> Num(2)])])])
    /\ flat = Dict([a_b |-> Num(1), a_c_d |-> Num(2)])
    /\ reflat = flat

\* the wake commands an invocation can issue before wait reaches WAKE_LIMIT
MaxAttempts == WAKE_LIMIT \div WAKE_STEP

\* C31: every invocation of wake_up_if_asleep() ends, provided each wake_up()
\* returns or raises: a caller that has called reaches the end of the function,
\* by a return or by an exception; it issues at most MaxAttempts wake commands,
\* it begins no delay once wait has reached WAKE_LIMIT, and after "Could not
\* wake up vehicle" it issues no command and begins no delay.
C31_WakeTerminates ==
    /\ \A i \in Callers : (wpc[i] = "locking") ~> Finished(i)
    /\ [][\A i \in Callers :
            /\ Len(attempts'[i]) <= MaxAttempts
            /\ wpc'[i] = "sleeping" => wait'[i] < WAKE_LIMIT
            /\ wpc[i] = "CouldNotWake" =>
                  /\ wpc'[i] \in {"CouldNotWake", "idle"}
                  /\ wpc'[i] = "CouldNotWake" =>
                        attempts'[i] = attempts[i] /\ slept'[i] = slept[i]]_vars

C31_Witness ==
    \E i \in Callers :
        /\ wpc[i] = "CouldNotWake"
        /\ Len(attempts[i]) = MaxAttempts
        /\ wait[i] >= WAKE_LIMIT
        /\ \E j \in Callers : j # i /\ wpc[j] = "locking"

\* C34: an invocation that gets the lock while the cached state is "online",
\* whether it was so at the call or another caller made it so meanwhile,
\* returns in that step with no wake command and no delay; and an invocation
\* returns only in a step that leaves the cached state "online".
C34_OnlineReturnsAtOnce ==
    [][\A i \in Callers :
          /\ (Acquire(i) /\ Subscript(data, "state") = <<TRUE, ONLINE>>) =>
                /\ wpc'[i] = "return"
                /\ attempts'[i] = <<>>
                /\ slept'[i] = 0
                /\ data' = data
          /\ (wpc[i] # "return" /\ wpc'[i] = "return") =>
                Subscript(data', "state") = <<TRUE, ONLINE>>]_vars

C34_Witness ==
    \E i, j \in Callers :
        /\ wpc[i] = "return" /\ attempts[i] = <<>> /\ slept[i] = 0
        /\ wpc[j] = "return" /\ Len(attempts[j]) >= 1
        /\ Subscript(data, "state") = <<TRUE, ONLINE>>

\* C35: a vehicle refresh whose fetch raises VehicleOffline leaves the cache
\* as it was when the fetch ended, the writes of entities made meanwhile
\* included, but for data["state"]; it leaves last_active and updated_once as
\* they were, and of the coordinator's fields it changes update_interval only.
C35_OfflineChangesStateOnly ==
    [][VehicleFetched(Raise("VehicleOffline")) =>
          /\ data' = SetItem(data, "state", OFFLINE)
          /\ last_active' = last_active
          /\ updated_once' = updated_once
          /\ UNCHANGED <<kind, pre2021>>]_vars

C35_Witness ==
    /\ kind = "vehicle"
    /\ last_fetch = "VehicleOffline"
    /\ last_result = "success"
    /\ Subscript(data, "state") = <<TRUE, OFFLINE>>
    /\ SetKeys(data) # {}
    /\ Subscript(data, "vin")[1]
    /\ ~updated_once
    /\ last_active < now

\* C36: a vehicle refresh that ends in a failure leaves update_interval,
\* last_active and updated_once as they were.
C36_FailureKeepsPolicyState ==
    [][(kind = "vehicle" /\ pc = "fetching" /\ pc' = "idle"
          /\ last_result' # "success")
       => UNCHANGED <<update_interval, last_active, updated_once>>]_vars

CacheShowsActivity ==
    \/ Subscript(data, "charge_state_charging_state") = <<TRUE, Str("Charging")>>
    \/ Subscript(data, "vehicle_state_is_user_present") = <<TRUE, Bool(TRUE)>>
    \/ Subscript(data, "vehicle_state_sentry_mode") = <<TRUE, Bool(TRUE)>>

\* the last refresh was not a successful fetch without activity signal
Disturbed ==
    \/ last_result \notin {"", "success"}
    \/ last_fetch = "VehicleOffline"
    \/ CacheShowsActivity

\* C38: for a pre-2021 vehicle that keeps being polled while time passes,
\* either some refresh is not a successful fetch without activity signal, or
\* the interval becomes VEHICLE_WAIT at some time; the interval leaves
\* VEHICLE_WAIT only in a refresh that saw an activity signal or whose fetch
\* raised VehicleOffline; and a successful fetch without activity signal more
\* than 20 minutes after last_active sets last_active to the time of the fetch
\* and leaves the interval at VEHICLE_WAIT.
C38_EventuallySleeps ==
    /\ <>(Disturbed \/ update_interval = VEHICLE_WAIT)
    /\ [][(update_interval = VEHICLE_WAIT /\ update_interval' # VEHICLE_WAIT)
           => \/ \E out \in SleepFetchOutcomes :
                    ActiveResponse(out) /\ FinishRefresh(out)
              \/ FinishRefresh(Raise("VehicleOffline"))]_vars
    /\ [][(OldVehicleRefreshEnds /\ update_interval = VEHICLE_WAIT
             /\ Elapsed > SLEEP_END)
           => \A out \in SleepFetchOutcomes :
                 (IdleResponse(out) /\ FinishRefresh(out))
                 => last_active' = now /\ update_interval' = VEHICLE_WAIT]_vars

C38_Witness ==
    /\ kind = "vehicle"
    /\ pre2021
    /\ update_interval = VEHICLE_WAIT
    /\ ~Disturbed
    /\ last_fetch = "returned"
    /\ last_active >= SLEEP_END
    /\ Elapsed > 0

\* this step ends a refresh with success
SuccessfulRefresh == pc = "fetching" /\ pc' = "idle" /\ last_result' = "success"

\* this step is a set() with a pair for key k
WritesKey(k) ==
    \E e \in Entities : \E args \in WriteArgs :
        Set(e, args) /\ \E i \in DOMAIN args : args[i][1] = k

\* C33: in the step of set(*args) every pair is in the cache when the entity
\* writes its state, has(k) is True and get(k) is v for each pair (k, v) and
\* whichever entity reads; and a step that changes the cache or the entities
\* told, and neither ends a refresh with success nor is a set() with a pair
\* for k, leaves has(k) True and get(k) as it was, for every k that holds a
\* value set before (a step that changes neither leaves them as they are).
C33_SetReadsBack ==
    [][(data' # data \/ fresh' # fresh) =>
       /\ \A e \in Entities : \A args \in WriteArgs :
             (IsDict(data) /\ Set(e, args))
             => /\ fresh' = {e}
                /\ \A i \in DOMAIN args : \A r \in Entities :
                      /\ has(data', EntityKey(r), Str(args[i][1])).ret = Bool(TRUE)
                      /\ get(data', EntityKey(r), Str(args[i][1]), None).ret
                            = args[i][2]
       /\ ~SuccessfulRefresh =>
             \A k \in SetKeys(data) :
                ~WritesKey(k)
                => \A r \in Entities :
                      /\ has(data', EntityKey(r), Str(k)).ret = Bool(TRUE)
                      /\ get(data', EntityKey(r), Str(k), None).ret = Val(data)[k]]_vars

C33_Witness ==
    /\ kind = "vehicle"
    /\ pc = "idle"
    /\ last_fetch = "TeslaFleetError"
    /\ last_result = "update_failed"
    /\ \E e \in Entities : fresh = {e}
    /\ {"vehicle_state_fd_window", "vehicle_state_rp_window"} \subseteq SetKeys(data)
    /\ has(data, EntityKey(1), Str("vehicle_state_rp_window")).ret = Bool(TRUE)
    /\ get(data, EntityKey(1), Str("vehicle_state_rp_window"), None).ret = Str("open")

\* this step ends a vehicle refresh with success: the sensors are told
SensorsTold == kind = "vehicle" /\ SuccessfulRefresh

\* C32: while no fetch of the vehicle has ended with success on a response,
\* every sensor has no value (None) after each update of the coordinator;
\* once updated_once is true a metric sensor has, after each update, the
\* value that its value_fn makes of the cached value and is available, or
\* it has no value and is unavailable when its available_fn rejects the
\* cached value, and the time sensor is available just when the cached
\* minutes are above 0.
C32_NoValueBeforeFirstFetch ==
    [][SensorsTold =>
          /\ ~fetched' => \A s \in Sensors : native_value'[s] = None
          /\ updated_once' =>
                /\ \A s \in MetricSensors :
                      LET x == SensorValue(data', s)
                      IN  IF available_fn(s, x)
                          THEN available'[s] /\ native_value'[s] = value_fn(s, x)
                          ELSE ~available'[s] /\ native_value'[s] = None
                /\ \A s \in TimeSensors :
                      LET x == SensorValue(data', s)
                      IN  available'[s] = (Kind(x) = "num" /\ Val(x) > 0)]_vars

====
